---------------------------- MODULE Spec2Model ----------------------------
(***************************************************************************)
(* A model of open-gl-triangle-to-file.c: main() as a sequence of steps,   *)
(* one per EGL / GL / libc call (or group of calls that share one source   *)
(* statement block), and save_ppm() as its own steps.                      *)
(*                                                                         *)
(* What lies outside the source is the environment, and every outcome the  *)
(* environment can hand back is a nondeterministic choice: the result of   *)
(* each EGL call, the framebuffer status, each shader's compile status,    *)
(* the link status, the uniform location, the bytes glReadPixels returns,  *)
(* the result of fopen, and whether output.ppm exists before the run.      *)
(* malloc, fprintf, fwrite and fclose are taken to succeed (the source     *)
(* checks none of them).                                                   *)
(*                                                                         *)
(* Byte strings are kept in a compact form so that the 640*480*3 byte      *)
(* buffer of the real run fits a state:                                    *)
(*   a buffer  is [size |-> n, pat |-> p], byte i (from 0) being           *)
(*             p[(i % Len(p)) + 1]; with Len(p) = n it is an explicit      *)
(*             array of bytes;                                             *)
(*   a piece   is [img |-> buffer, off |-> o, n |-> n], the n bytes of the *)
(*             buffer from offset o: what one fwrite / fprintf appends;    *)
(*   a file's content is a sequence of pieces.                             *)
(***************************************************************************)
EXTENDS Integers, Sequences, FiniteSets

VARIABLES
    pc,        \* position of the program in main() / save_ppm()
    exitCode,  \* "running", "return 0" or "return -1"
    egl,       \* display, config, context, surface, current binding
    gl,        \* GL objects and bindings of the context
    pixels,    \* the host pixel buffer: its pointer state and its bytes
    sp,        \* the frame of save_ppm: width, height, y, f
    fs,        \* the file system entry output.ppm
    fsInit,    \* output.ppm as it was before the run (never changes)
    stderr,    \* the diagnostics written to stderr, in order
    trace      \* the calls made so far, in order

vars == <<pc, exitCode, egl, gl, pixels, sp, fs, fsInit, stderr, trace>>

---------------------------------------------------------------------------
(* Program constants and bounds *)

WIDTH == 640
HEIGHT == 480

\* save_ppm alone is checked on every image of at most MaxPixels pixels.
MaxPixels == 4

\* The byte values the enumerated buffers are made of.
Bytes == {0, 255}

\* The pictures glReadPixels hands back in the full run: the clear colour
\* everywhere, and a picture of period 7 (green and black pixels) whose rows
\* all differ from their neighbours.
RenderPatterns == { <<0, 0, 0>>, <<0, 255, 0, 0, 0, 0, 0>> }

---------------------------------------------------------------------------
(* Byte strings *)

PixelAt(img, i) == img.pat[(i % Len(img.pat)) + 1]

Explicit(s) == [size |-> Len(s), pat |-> s]

Piece(buf, off, n) ==
    [img |-> [size |-> buf.size, pat |-> buf.pat], off |-> off, n |-> n]

PieceBytes(p) == [k \in 1..p.n |-> PixelAt(p.img, p.off + k - 1)]

RECURSIVE DataLen(_)
DataLen(data) ==
    IF data = <<>> THEN 0 ELSE Head(data).n + DataLen(Tail(data))

RECURSIVE DataBytes(_)
DataBytes(data) ==
    IF data = <<>> THEN <<>>
    ELSE PieceBytes(Head(data)) \o DataBytes(Tail(data))

\* printf's %d of a non-negative int, as ASCII codes.
RECURSIVE Dec(_)
Dec(n) == IF n < 10 THEN <<48 + n>> ELSE Dec(n \div 10) \o <<48 + (n % 10)>>

\* "P6\n%d %d\n255\n"
Header(width, height) ==
    <<80, 54, 10>> \o Dec(width) \o <<32>> \o Dec(height) \o <<10, 50, 53, 53, 10>>

\* &pixels[y * width * 3]
RowOffsetNoChannels(y, width) == y * width
RowOffset(y, width) == y * width * 3

\* width * 3, the count of one fwrite
RowBytes(width) == width * 3

\* int y = height - 1
FirstRow(height) == height - 1

\* fopen(filepath, "wb") that succeeded: the entry exists and is empty.
FopenAppend(f) == [exists |-> TRUE, data |-> f.data]
FopenWb(f) == [exists |-> TRUE, data |-> <<>>]

Absent == [exists |-> FALSE, data |-> <<>>]
OldFile == [exists |-> TRUE, data |-> <<Piece(Explicit(<<1, 2, 3, 4>>), 0, 4)>>]

---------------------------------------------------------------------------
(* State before main() runs *)

\* config is "uninit" and numConfigs is -1 until eglChooseConfig writes
\* them: both are locals declared without a value.
InitEgl ==
    [display |-> "none", initialized |-> FALSE, config |-> "uninit",
     numConfigs |-> -1, api |-> "default", context |-> "none",
     surface |-> "none", current |-> FALSE]

InitGl ==
    [fbo |-> "none", boundFbo |-> "default", texture |-> "none",
     texStorage |-> <<0, 0>>, attached |-> FALSE, status |-> "unchecked",
     vertexShader |-> "none", vsCompiled |-> "unset",
     fragmentShader |-> "none", fsCompiled |-> "unset",
     program |-> "none", linked |-> "unset", currentProgram |-> "none",
     verticesLoc |-> -1, uniformSet |-> FALSE,
     viewport |-> <<0, 0, 0, 0>>, colorBuf |-> "undefined",
     vao |-> "none", vaoBound |-> FALSE, draws |-> 0, readFrom |-> "none"]

NoPixels == [ptr |-> "null", size |-> 0, pat |-> <<>>]

InitSp == [width |-> 0, height |-> 0, y |-> 0, f |-> "none"]

Init ==
    /\ pc = "get_display"
    /\ exitCode = "running"
    /\ egl = InitEgl
    /\ gl = InitGl
    /\ pixels = NoPixels
    /\ sp = InitSp
    /\ fsInit \in {Absent, OldFile}
    /\ fs = fsInit
    /\ stderr = <<>>
    /\ trace = <<>>

\* The context is current and usable: eglMakeCurrent succeeded and neither
\* the surface nor the context has been destroyed since.
ContextCurrent ==
    egl.current /\ egl.surface = "live" /\ egl.context = "live"

\* One call, as the trace keeps it: its name, the result the program sees,
\* whether the context was current and which framebuffer was bound.
Call(op, ok) ==
    Append(trace, [op |-> op, ok |-> ok, cur |-> ContextCurrent, fb |-> gl.boundFbo])

\* return -1 after a diagnostic
Abort(msg) ==
    /\ stderr' = Append(stderr, msg)
    /\ exitCode' = "return -1"
    /\ pc' = "done"

Goto(l) ==
    /\ pc' = l
    /\ UNCHANGED <<exitCode, stderr>>

---------------------------------------------------------------------------
(* main(): 1. - 6. EGL set-up *)

\* eglGetDisplay(EGL_DEFAULT_DISPLAY), and the check of its result
GetDisplay ==
    /\ pc = "get_display"
    /\ \E d \in {"none", "live"} :
        /\ egl' = [egl EXCEPT !.display = d]
        /\ trace' = Call("eglGetDisplay", d # "none")
        /\ IF d = "none" THEN Abort("Failed to get EGL display")
           ELSE Goto("initialize")
    /\ UNCHANGED <<gl, pixels, sp, fs, fsInit>>

\* eglInitialize(display, &major, &minor)
Initialize ==
    /\ pc = "initialize"
    /\ \E ok \in BOOLEAN :
        /\ egl' = [egl EXCEPT !.initialized = ok]
        /\ trace' = Call("eglInitialize", ok)
        /\ IF ~ok THEN Abort("Failed to initialize EGL")
           ELSE Goto("choose_config")
    /\ UNCHANGED <<gl, pixels, sp, fs, fsInit>>

\* eglChooseConfig(display, configAttribs, &config, 1, &numConfigs).
\* EGL returns EGL_FALSE on an error (then config and numConfigs are left
\* alone), and EGL_TRUE otherwise, also when no configuration matches: then
\* numConfigs is 0 and config is not written. The source tests only the
\* return value.
ChooseConfig ==
    /\ pc = "choose_config"
    /\ \E r \in {"error", "match", "no_match"} :
        /\ egl' = CASE r = "error"    -> egl
                    [] r = "match"    -> [egl EXCEPT !.config = "chosen", !.numConfigs = 1]
                    [] r = "no_match" -> [egl EXCEPT !.numConfigs = 0]
        /\ trace' = Call("eglChooseConfig", r # "error")
        /\ IF r = "error" THEN Abort("Failed to choose EGL config")
           ELSE Goto("bind_api")
    /\ UNCHANGED <<gl, pixels, sp, fs, fsInit>>

\* eglBindAPI(EGL_OPENGL_API); its result is not looked at
BindAPI ==
    /\ pc = "bind_api"
    /\ \E ok \in BOOLEAN :
        /\ egl' = [egl EXCEPT !.api = IF ok THEN "opengl" ELSE @]
        /\ trace' = Call("eglBindAPI", ok)
    /\ Goto("create_context")
    /\ UNCHANGED <<gl, pixels, sp, fs, fsInit>>

\* The handles eglCreateContext / eglCreatePbufferSurface can return for a
\* config: creation may fail for a chosen config; an uninitialized config is
\* whatever the stack held, which EGL rejects (EGL_BAD_CONFIG) unless it
\* happens to name a configuration.
Created(config) ==
    {"none"} \cup (IF config \in {"chosen", "uninit"} THEN {"live"} ELSE {})

\* eglCreateContext(display, config, EGL_NO_CONTEXT, NULL)
CreateContext ==
    /\ pc = "create_context"
    /\ \E c \in Created(egl.config) :
        /\ egl' = [egl EXCEPT !.context = c]
        /\ trace' = Call("eglCreateContext", c # "none")
        /\ IF c = "none" THEN Abort("Failed to create EGL context")
           ELSE Goto("create_surface")
    /\ UNCHANGED <<gl, pixels, sp, fs, fsInit>>

\* eglCreatePbufferSurface(display, config, pbufferAttribs)
CreatePbufferSurface ==
    /\ pc = "create_surface"
    /\ \E s \in Created(egl.config) :
        /\ egl' = [egl EXCEPT !.surface = s]
        /\ trace' = Call("eglCreatePbufferSurface", s # "none")
        /\ IF s = "none" THEN Abort("Failed to create EGL surface")
           ELSE Goto("make_current")
    /\ UNCHANGED <<gl, pixels, sp, fs, fsInit>>

\* A make-current whose result is not tested.
MakeCurrentUnchecked ==
    /\ pc = "make_current"
    /\ \E ok \in BOOLEAN :
        /\ egl' = [egl EXCEPT !.current = ok]
        /\ trace' = Call("eglMakeCurrent", ok)
    /\ Goto("gen_fbo")
    /\ UNCHANGED <<gl, pixels, sp, fs, fsInit>>

\* if (!eglMakeCurrent(display, surface, surface, context)) return -1
MakeCurrent ==
    /\ pc = "make_current"
    /\ \E ok \in BOOLEAN :
        /\ egl' = [egl EXCEPT !.current = ok]
        /\ trace' = Call("eglMakeCurrent", ok)
        /\ IF ~ok THEN Abort("Failed to make context current")
           ELSE Goto("gen_fbo")
    /\ UNCHANGED <<gl, pixels, sp, fs, fsInit>>

---------------------------------------------------------------------------
(* main(): FBO set-up *)

\* glGenFramebuffers(1, &fbo); glBindFramebuffer(GL_FRAMEBUFFER, fbo)
GenBindFramebuffer ==
    /\ pc = "gen_fbo"
    /\ trace' = Call("glBindFramebuffer", TRUE)
    /\ gl' = [gl EXCEPT !.fbo = "live", !.boundFbo = "fbo"]
    /\ Goto("create_texture")
    /\ UNCHANGED <<egl, pixels, sp, fs, fsInit>>

\* glGenTextures, glBindTexture, glTexImage2D(.., WIDTH, HEIGHT, .., NULL),
\* glTexParameteri x 2
CreateTexture ==
    /\ pc = "create_texture"
    /\ trace' = Call("glTexImage2D", TRUE)
    /\ gl' = [gl EXCEPT !.texture = "live", !.texStorage = <<WIDTH, HEIGHT>>]
    /\ Goto("attach_texture")
    /\ UNCHANGED <<egl, pixels, sp, fs, fsInit>>

\* glFramebufferTexture2D(GL_FRAMEBUFFER, GL_COLOR_ATTACHMENT0, .., texture, 0)
AttachTexture ==
    /\ pc = "attach_texture"
    /\ trace' = Call("glFramebufferTexture2D", TRUE)
    /\ gl' = [gl EXCEPT !.attached = (gl.boundFbo = "fbo")]
    /\ Goto("check_fbo")
    /\ UNCHANGED <<egl, pixels, sp, fs, fsInit>>

\* A status check that reports and goes on instead of returning.
CheckFramebufferStatusGoesOn ==
    /\ pc = "check_fbo"
    /\ \E st \in {"complete", "incomplete"} :
        /\ gl' = [gl EXCEPT !.status = st]
        /\ trace' = Call("glCheckFramebufferStatus", st = "complete")
        /\ stderr' = IF st = "complete" THEN stderr
                     ELSE Append(stderr, "Error: Framebuffer is not complete!")
        /\ pc' = "compile_vs"
        /\ UNCHANGED exitCode
    /\ UNCHANGED <<egl, pixels, sp, fs, fsInit>>

\* if (glCheckFramebufferStatus(GL_FRAMEBUFFER) != GL_FRAMEBUFFER_COMPLETE)
\*     return -1
CheckFramebufferStatus ==
    /\ pc = "check_fbo"
    /\ \E st \in {"complete", "incomplete"} :
        /\ gl' = [gl EXCEPT !.status = st]
        /\ trace' = Call("glCheckFramebufferStatus", st = "complete")
        /\ IF st # "complete" THEN Abort("Error: Framebuffer is not complete!")
           ELSE Goto("compile_vs")
    /\ UNCHANGED <<egl, pixels, sp, fs, fsInit>>

---------------------------------------------------------------------------
(* main(): 7. - 9. shaders and program *)

\* check_shader_compile(shader): a failed compile is printed, nothing more
CheckShaderCompile(success) ==
    /\ stderr' = IF success THEN stderr ELSE Append(stderr, "Shader Compile Error")
    /\ UNCHANGED exitCode

\* A vertex stage whose compile failure ends the run.
CompileVertexShaderFatal ==
    /\ pc = "compile_vs"
    /\ \E ok \in BOOLEAN :
        /\ gl' = [gl EXCEPT !.vertexShader = "live", !.vsCompiled = IF ok THEN "ok" ELSE "failed"]
        /\ trace' = Call("glCompileShader", ok)
        /\ IF ok THEN Goto("compile_fs") ELSE Abort("Shader Compile Error")
    /\ UNCHANGED <<egl, pixels, sp, fs, fsInit>>

\* glCreateShader(GL_VERTEX_SHADER), glShaderSource, glCompileShader,
\* check_shader_compile
CompileVertexShader ==
    /\ pc = "compile_vs"
    /\ \E ok \in BOOLEAN :
        /\ gl' = [gl EXCEPT !.vertexShader = "live", !.vsCompiled = IF ok THEN "ok" ELSE "failed"]
        /\ trace' = Call("glCompileShader", ok)
        /\ CheckShaderCompile(ok)
    /\ pc' = "compile_fs"
    /\ UNCHANGED <<egl, pixels, sp, fs, fsInit>>

\* glCreateShader(GL_FRAGMENT_SHADER), glShaderSource, glCompileShader,
\* check_shader_compile
CompileFragmentShader ==
    /\ pc = "compile_fs"
    /\ \E ok \in BOOLEAN :
        /\ gl' = [gl EXCEPT !.fragmentShader = "live", !.fsCompiled = IF ok THEN "ok" ELSE "failed"]
        /\ trace' = Call("glCompileShader", ok)
        /\ CheckShaderCompile(ok)
    /\ pc' = "link"
    /\ UNCHANGED <<egl, pixels, sp, fs, fsInit>>

\* The link statuses GL can report: a program with a stage that did not
\* compile never links; one with two compiled stages may still fail to.
LinkOutcomes ==
    IF gl.vsCompiled = "ok" /\ gl.fsCompiled = "ok" THEN BOOLEAN ELSE {FALSE}

\* A link step that tests GL_LINK_STATUS and returns on failure.
LinkProgramFatal ==
    /\ pc = "link"
    /\ \E ok \in LinkOutcomes :
        /\ gl' = [gl EXCEPT !.program = "live", !.linked = IF ok THEN "ok" ELSE "failed"]
        /\ trace' = Call("glLinkProgram", ok)
        /\ IF ok THEN Goto("delete_shaders") ELSE Abort("Program Link Error")
    /\ UNCHANGED <<egl, pixels, sp, fs, fsInit>>

\* glCreateProgram, glAttachShader x 2, glLinkProgram; the link status is
\* never queried
LinkProgram ==
    /\ pc = "link"
    /\ \E ok \in LinkOutcomes :
        /\ gl' = [gl EXCEPT !.program = "live", !.linked = IF ok THEN "ok" ELSE "failed"]
        /\ trace' = Call("glLinkProgram", ok)
    /\ Goto("delete_shaders")
    /\ UNCHANGED <<egl, pixels, sp, fs, fsInit>>

\* glDeleteShader(vertexShader); glDeleteShader(fragmentShader): the stages
\* stay attached, so GL only flags them for deletion
DeleteShaders ==
    /\ pc = "delete_shaders"
    /\ gl' = [gl EXCEPT !.vertexShader = "deleted", !.fragmentShader = "deleted"]
    /\ trace' = Call("glDeleteShader", TRUE)
    /\ Goto("use_program")
    /\ UNCHANGED <<egl, pixels, sp, fs, fsInit>>

\* glUseProgram(shaderProgram): GL installs a linked program and refuses
\* (GL_INVALID_OPERATION, the current program stays) one that is not
UseProgram ==
    /\ pc = "use_program"
    /\ gl' = [gl EXCEPT !.currentProgram = IF gl.linked = "ok" THEN "program" ELSE @]
    /\ trace' = Call("glUseProgram", gl.linked = "ok")
    /\ Goto("get_uniform")
    /\ UNCHANGED <<egl, pixels, sp, fs, fsInit>>

\* glGetUniformLocation(shaderProgram, "u_Vertices"): -1 for a program that
\* is not linked, and -1 or a location for one that is
GetUniformLocation ==
    /\ pc = "get_uniform"
    /\ \E loc \in (IF gl.linked = "ok" THEN {-1, 0} ELSE {-1}) :
        /\ gl' = [gl EXCEPT !.verticesLoc = loc]
        /\ trace' = Call("glGetUniformLocation", loc # -1)
    /\ Goto("upload_vertices")
    /\ UNCHANGED <<egl, pixels, sp, fs, fsInit>>

\* if (verticesLoc != -1) glUniform4fv(verticesLoc, 3, vertices);
\* else fprintf(stderr, "Warning: ...")
UploadVertices ==
    /\ pc = "upload_vertices"
    /\ IF gl.verticesLoc # -1
       THEN /\ gl' = [gl EXCEPT !.uniformSet = TRUE]
            /\ trace' = Call("glUniform4fv", TRUE)
            /\ UNCHANGED stderr
       ELSE /\ stderr' = Append(stderr, "Warning: Could not find u_Vertices uniform location.")
            /\ UNCHANGED <<gl, trace>>
    /\ pc' = "clear"
    /\ UNCHANGED <<exitCode, egl, pixels, sp, fs, fsInit>>

---------------------------------------------------------------------------
(* main(): 10. - 12. render, read back, save *)

\* glViewport(0, 0, WIDTH, HEIGHT); glClearColor(0, 0, 0, 1);
\* glClear(GL_COLOR_BUFFER_BIT)
ViewportClear ==
    /\ pc = "clear"
    /\ gl' = [gl EXCEPT !.viewport = <<0, 0, WIDTH, HEIGHT>>, !.colorBuf = "cleared"]
    /\ trace' = Call("glClear", TRUE)
    /\ Goto("bind_vao")
    /\ UNCHANGED <<egl, pixels, sp, fs, fsInit>>

\* A step that leaves the draw out.
BindVertexArraySkipsDraw ==
    /\ pc = "bind_vao"
    /\ gl' = [gl EXCEPT !.vao = "live", !.vaoBound = TRUE]
    /\ trace' = Call("glBindVertexArray", TRUE)
    /\ Goto("read_pixels")
    /\ UNCHANGED <<egl, pixels, sp, fs, fsInit>>

\* glGenVertexArrays(1, &VAO); glBindVertexArray(VAO)
BindVertexArray ==
    /\ pc = "bind_vao"
    /\ gl' = [gl EXCEPT !.vao = "live", !.vaoBound = TRUE]
    /\ trace' = Call("glBindVertexArray", TRUE)
    /\ Goto("draw")
    /\ UNCHANGED <<egl, pixels, sp, fs, fsInit>>

\* glDrawArrays(GL_TRIANGLES, 0, 3): the triangle, when a program is
\* current and carries the vertices; otherwise whatever the GL makes of it
DrawArrays ==
    /\ pc = "draw"
    /\ gl' = [gl EXCEPT !.draws = @ + 1,
                        !.colorBuf = IF gl.currentProgram = "program" /\ gl.uniformSet
                                     THEN "triangle" ELSE "undefined"]
    /\ trace' = Call("glDrawArrays", TRUE)
    /\ Goto("read_pixels")
    /\ UNCHANGED <<egl, pixels, sp, fs, fsInit>>

\* malloc(WIDTH * HEIGHT * 3); glReadPixels(0, 0, WIDTH, HEIGHT, GL_RGB,
\* GL_UNSIGNED_BYTE, pixels): the buffer is filled from the framebuffer
\* that is bound at the call
ReadPixels ==
    /\ pc = "read_pixels"
    /\ \E p \in RenderPatterns :
        pixels' = [ptr |-> "live", size |-> WIDTH * HEIGHT * 3, pat |-> p]
    /\ gl' = [gl EXCEPT !.readFrom = gl.boundFbo]
    /\ trace' = Call("glReadPixels", TRUE)
    /\ Goto("call_save")
    /\ UNCHANGED <<egl, sp, fs, fsInit>>

\* save_ppm("output.ppm", WIDTH, HEIGHT, pixels): the call
CallSavePpm ==
    /\ pc = "call_save"
    /\ sp' = [width |-> WIDTH, height |-> HEIGHT, y |-> 0, f |-> "none"]
    /\ Goto("sp_fopen")
    /\ UNCHANGED <<egl, gl, pixels, fs, fsInit, trace>>

---------------------------------------------------------------------------
(* save_ppm(filepath, width, height, pixels) *)

\* An open failure that ends the process on the spot.
SaveOpenFailureExits ==
    /\ pc = "sp_fopen"
    /\ \E ok \in BOOLEAN :
        /\ trace' = Call("fopen", ok)
        /\ IF ok
           THEN /\ fs' = FopenWb(fs)
                /\ sp' = [sp EXCEPT !.f = "open"]
                /\ Goto("sp_header")
           ELSE /\ sp' = [sp EXCEPT !.f = "null"]
                /\ Abort("Failed to open file for writing")
                /\ UNCHANGED fs
    /\ UNCHANGED <<egl, gl, pixels, fsInit>>

\* FILE *f = fopen(filepath, "wb"); if (!f) { fprintf(stderr, ..); return; }
SaveOpen ==
    /\ pc = "sp_fopen"
    /\ \E ok \in BOOLEAN :
        /\ trace' = Call("fopen", ok)
        /\ IF ok
           THEN /\ fs' = FopenWb(fs)
                /\ sp' = [sp EXCEPT !.f = "open"]
                /\ Goto("sp_header")
           ELSE /\ sp' = [sp EXCEPT !.f = "null"]
                /\ stderr' = Append(stderr, "Failed to open file for writing")
                /\ pc' = "delete_vao"
                /\ UNCHANGED <<fs, exitCode>>
    /\ UNCHANGED <<egl, gl, pixels, fsInit>>

\* fprintf(f, "P6\n%d %d\n255\n", width, height); int y = height - 1
SaveHeader ==
    /\ pc = "sp_header"
    /\ LET h == Header(sp.width, sp.height)
       IN  fs' = [fs EXCEPT !.data = Append(@, Piece(Explicit(h), 0, Len(h)))]
    /\ sp' = [sp EXCEPT !.y = FirstRow(sp.height)]
    /\ Goto("sp_loop")
    /\ UNCHANGED <<egl, gl, pixels, fsInit, trace>>

\* y >= 0: fwrite(&pixels[y * width * 3], 1, width * 3, f); y--
SaveRow ==
    /\ pc = "sp_loop"
    /\ sp.y >= 0
    /\ fs' = [fs EXCEPT !.data =
                Append(@, Piece(pixels, RowOffset(sp.y, sp.width), RowBytes(sp.width)))]
    /\ sp' = [sp EXCEPT !.y = @ - 1]
    /\ Goto("sp_loop")
    /\ UNCHANGED <<egl, gl, pixels, fsInit, trace>>

\* y < 0: fclose(f); printf("Saved image to %s\n", filepath); return
SaveClose ==
    /\ pc = "sp_loop"
    /\ sp.y < 0
    /\ sp' = [sp EXCEPT !.f = "closed"]
    /\ trace' = Call("fclose", TRUE)
    /\ Goto("delete_vao")
    /\ UNCHANGED <<egl, gl, pixels, fs, fsInit>>

---------------------------------------------------------------------------
(* main(): 13. cleanup *)

\* glDeleteVertexArrays(1, &VAO)
DeleteVertexArrays ==
    /\ pc = "delete_vao"
    /\ gl' = [gl EXCEPT !.vao = "deleted", !.vaoBound = FALSE]
    /\ trace' = Call("glDeleteVertexArrays", TRUE)
    /\ Goto("delete_program")
    /\ UNCHANGED <<egl, pixels, sp, fs, fsInit>>

\* glDeleteProgram(shaderProgram)
DeleteProgram ==
    /\ pc = "delete_program"
    /\ gl' = [gl EXCEPT !.program = "deleted"]
    /\ trace' = Call("glDeleteProgram", TRUE)
    /\ Goto("delete_fbo")
    /\ UNCHANGED <<egl, pixels, sp, fs, fsInit>>

\* glDeleteFramebuffers(1, &fbo): deleting the bound framebuffer binds the
\* default one
DeleteFramebuffers ==
    /\ pc = "delete_fbo"
    /\ gl' = [gl EXCEPT !.fbo = "deleted", !.boundFbo = "default", !.attached = FALSE]
    /\ trace' = Call("glDeleteFramebuffers", TRUE)
    /\ Goto("delete_texture")
    /\ UNCHANGED <<egl, pixels, sp, fs, fsInit>>

\* glDeleteTextures(1, &texture)
DeleteTextures ==
    /\ pc = "delete_texture"
    /\ gl' = [gl EXCEPT !.texture = "deleted", !.texStorage = <<0, 0>>]
    /\ trace' = Call("glDeleteTextures", TRUE)
    /\ Goto("free_pixels")
    /\ UNCHANGED <<egl, pixels, sp, fs, fsInit>>

\* A cleanup that destroys the context before the surface.
FreePixelsThenContext ==
    /\ pc = "free_pixels"
    /\ pixels' = [pixels EXCEPT !.ptr = "freed"]
    /\ egl' = [egl EXCEPT !.context = "destroyed"]
    /\ trace' = Append(Call("free", TRUE),
                       [op |-> "eglDestroyContext", ok |-> TRUE,
                        cur |-> ContextCurrent, fb |-> gl.boundFbo])
    /\ Goto("destroy_surface")
    /\ UNCHANGED <<gl, sp, fs, fsInit>>

\* free(pixels)
FreePixels ==
    /\ pc = "free_pixels"
    /\ pixels' = [pixels EXCEPT !.ptr = "freed"]
    /\ trace' = Call("free", TRUE)
    /\ Goto("destroy_surface")
    /\ UNCHANGED <<egl, gl, sp, fs, fsInit>>

\* eglDestroySurface(display, surface)
DestroySurface ==
    /\ pc = "destroy_surface"
    /\ egl' = [egl EXCEPT !.surface = "destroyed"]
    /\ trace' = Call("eglDestroySurface", TRUE)
    /\ Goto("destroy_context")
    /\ UNCHANGED <<gl, pixels, sp, fs, fsInit>>

\* eglDestroyContext(display, context)
DestroyContext ==
    /\ pc = "destroy_context"
    /\ egl' = [egl EXCEPT !.context = "destroyed"]
    /\ trace' = Call("eglDestroyContext", TRUE)
    /\ Goto("terminate")
    /\ UNCHANGED <<gl, pixels, sp, fs, fsInit>>

\* eglTerminate(display)
Terminate ==
    /\ pc = "terminate"
    /\ egl' = [egl EXCEPT !.display = "terminated", !.initialized = FALSE,
                          !.current = FALSE]
    /\ trace' = Call("eglTerminate", TRUE)
    /\ Goto("return")
    /\ UNCHANGED <<gl, pixels, sp, fs, fsInit>>

\* return 0
Return0 ==
    /\ pc = "return"
    /\ pc' = "done"
    /\ exitCode' = "return 0"
    /\ UNCHANGED <<egl, gl, pixels, sp, fs, fsInit, stderr, trace>>

---------------------------------------------------------------------------
(* The run of main(), and save_ppm() on its own *)

Next ==
    \/ GetDisplay \/ Initialize \/ ChooseConfig \/ BindAPI
    \/ CreateContext \/ CreatePbufferSurface \/ MakeCurrent
    \/ GenBindFramebuffer \/ CreateTexture \/ AttachTexture
    \/ CheckFramebufferStatus
    \/ CompileVertexShader \/ CompileFragmentShader \/ LinkProgram
    \/ DeleteShaders \/ UseProgram \/ GetUniformLocation \/ UploadVertices
    \/ ViewportClear \/ BindVertexArray \/ DrawArrays \/ ReadPixels
    \/ CallSavePpm \/ SaveOpen \/ SaveHeader \/ SaveRow \/ SaveClose
    \/ DeleteVertexArrays \/ DeleteProgram \/ DeleteFramebuffers
    \/ DeleteTextures \/ FreePixels
    \/ DestroySurface \/ DestroyContext \/ Terminate \/ Return0

Spec == Init /\ [][Next]_vars

\* save_ppm called with any width and height of at most MaxPixels pixels
\* together, on every buffer of width * height * 3 bytes over Bytes.
InitPpm ==
    /\ pc = "sp_fopen"
    /\ exitCode = "running"
    /\ egl = InitEgl
    /\ gl = InitGl
    /\ \E w \in 0..MaxPixels, h \in 0..MaxPixels :
        /\ w * h <= MaxPixels
        /\ sp = [width |-> w, height |-> h, y |-> 0, f |-> "none"]
        /\ pixels \in {[ptr |-> "live", size |-> w * h * 3, pat |-> s] :
                          s \in [1..(w * h * 3) -> Bytes]}
    /\ fsInit \in {Absent, OldFile}
    /\ fs = fsInit
    /\ stderr = <<>>
    /\ trace = <<>>

NextPpm == SaveOpen \/ SaveHeader \/ SaveRow \/ SaveClose

SpecPpm == InitPpm /\ [][NextPpm]_vars

---------------------------------------------------------------------------
(* What the properties below read from a state *)

Positions(op) == {i \in 1..Len(trace) : trace[i].op = op}

Count(op) == Cardinality(Positions(op))

Before(a, b) == \A i \in Positions(a), j \in Positions(b) : i < j

Reported(msg) == \E i \in 1..Len(stderr) : stderr[i] = msg

IsPrefix(s, t) == Len(s) <= Len(t) /\ \A i \in 1..Len(s) : s[i] = t[i]

\* The calls of the trace that are in the set ops, in order.
Calls(ops) ==
    LET pick(e) == e.op \in ops
    IN  [i \in 1..Len(SelectSeq(trace, pick)) |-> SelectSeq(trace, pick)[i].op]

\* save_ppm has returned to main() (or, on its own, to its caller)
AfterSave ==
    pc \in {"delete_vao", "delete_program", "delete_fbo", "delete_texture",
            "free_pixels", "destroy_surface", "destroy_context", "terminate",
            "return", "done"}

Exited == pc = "done"

GlCalls ==
    {"glBindFramebuffer", "glTexImage2D", "glFramebufferTexture2D",
     "glCheckFramebufferStatus", "glCompileShader", "glLinkProgram",
     "glDeleteShader", "glUseProgram", "glGetUniformLocation", "glUniform4fv",
     "glClear", "glBindVertexArray", "glDrawArrays", "glReadPixels",
     "glDeleteVertexArrays", "glDeleteProgram", "glDeleteFramebuffers",
     "glDeleteTextures"}

ReleaseCalls ==
    <<"glDeleteVertexArrays", "glDeleteProgram", "glDeleteFramebuffers",
      "glDeleteTextures", "free", "eglDestroySurface", "eglDestroyContext",
      "eglTerminate">>

AllReleased ==
    /\ gl.vao = "deleted" /\ gl.program = "deleted"
    /\ gl.fbo = "deleted" /\ gl.texture = "deleted"
    /\ pixels.ptr = "freed"
    /\ egl.surface = "destroyed" /\ egl.context = "destroyed"
    /\ egl.display = "terminated"

---------------------------------------------------------------------------
(* C1 *)

\* C1: when save_ppm has written the file, the payload (the bytes after
\* the header) has width*height*3 bytes, and for every row i in [0, height)
\* and every k in [0, width*3) byte k of payload row height-1-i is byte
\* i*width*3 + k of the buffer: rows are reversed, and nothing moves inside
\* a row, is swapped or is padded.
C1_RowFlip ==
    (pc = "delete_vao" /\ sp.f = "closed") =>
        LET w == sp.width
            h == sp.height
            bytes == DataBytes(fs.data)
            hdr == Len(Header(w, h))
        IN  /\ Len(bytes) = hdr + w * h * 3
            /\ \A i \in 0..(h - 1), k \in 0..(w * 3 - 1) :
                 bytes[hdr + (h - 1 - i) * w * 3 + k + 1] = pixels.pat[i * w * 3 + k + 1]

\* save_ppm has returned after writing a 2 x 2 image whose two rows differ
\* and whose first row has two different pixels.
C1_Witness ==
    /\ pc = "delete_vao" /\ sp.f = "closed"
    /\ sp.width = 2 /\ sp.height = 2
    /\ pixels.pat[1] # pixels.pat[7]
    /\ pixels.pat[1] # pixels.pat[4]
    /\ pixels.pat[2] # pixels.pat[3]

---------------------------------------------------------------------------
(* C2 *)

\* "P6\n640 480\n255\n"
ExpectedHeader == <<80, 54, 10, 54, 52, 48, 32, 52, 56, 48, 10, 50, 53, 53, 10>>

\* C2: in the run of main(), once fopen has succeeded the file never holds
\* anything before the header; and once save_ppm has returned, the file is
\* closed and is exactly the 15 header bytes "P6\n640 480\n255\n", written
\* once, followed by 480 rows of 1920 buffer bytes, 640*480*3 in all, and
\* nothing else.
C2_OutputFileExact ==
    /\ (sp.f \in {"open", "closed"} /\ fs.data # <<>>) =>
          /\ PieceBytes(fs.data[1]) = ExpectedHeader
          /\ \A j \in 2..Len(fs.data) :
                /\ fs.data[j].img.size = 921600
                /\ fs.data[j].img.pat = pixels.pat
                /\ fs.data[j].n = 1920
    /\ (AfterSave /\ sp.f \in {"open", "closed"}) =>
          /\ sp.f = "closed"
          /\ fs.exists
          /\ Len(fs.data) = 481
          /\ DataLen(fs.data) = 15 + 921600

\* A run has ended after writing the file over one that was there before.
C2_Witness ==
    /\ Exited /\ exitCode = "return 0"
    /\ sp.f = "closed"
    /\ fsInit = OldFile

---------------------------------------------------------------------------
(* C3 *)

\* C3: once the framebuffer status is anything but complete, the run has
\* ended with -1, and no draw, no readback and no fopen was or is ever
\* made: no buffer is allocated and output.ppm is as it was before the run.
C3_IncompleteFramebufferHalts ==
    gl.status = "incomplete" =>
        /\ Exited /\ exitCode = "return -1"
        /\ Count("glDrawArrays") = 0 /\ gl.draws = 0
        /\ Count("glReadPixels") = 0 /\ pixels.ptr = "null"
        /\ Count("fopen") = 0 /\ sp.f = "none"
        /\ fs = fsInit
        /\ Reported("Error: Framebuffer is not complete!")

\* The completeness check has failed on a framebuffer that was set up.
C3_Witness ==
    /\ gl.status = "incomplete"
    /\ gl.attached
    /\ Exited

---------------------------------------------------------------------------
(* C4 *)

\* C4 as stated: after fopen failed, the error is reported, nothing is
\* written, no output.ppm exists, and at exit everything is released.
C4_NoFileExistsAfterOpenFailure ==
    sp.f = "null" =>
        /\ Reported("Failed to open file for writing")
        /\ fs.data = <<>> /\ ~fs.exists
        /\ (Exited => AllReleased)

\* C4 (amended): after fopen failed, the error is reported, output.ppm is
\* exactly as it was before the run (not created, not written), the run
\* goes on into the cleanup, never returns -1, and at exit the vertex-array
\* object, program, framebuffer, texture, pixel buffer, surface, context
\* and display are all released.
C4_OpenFailureWritesNothing ==
    sp.f = "null" =>
        /\ Reported("Failed to open file for writing")
        /\ fs = fsInit
        /\ AfterSave
        /\ exitCode # "return -1"
        /\ (Exited => exitCode = "return 0" /\ AllReleased)

\* A run has ended after fopen failed.
C4_Witness ==
    /\ sp.f = "null"
    /\ Exited
    /\ Count("fopen") = 1

---------------------------------------------------------------------------
(* C5 *)

\* C5 for the configuration step: once eglChooseConfig has found no
\* matching configuration (it returned with numConfigs = 0), no later step
\* is executed: eglChooseConfig stays the last call the run made, and no
\* context is ever created.
C5_NoMatchingConfigIsFatal ==
    egl.numConfigs = 0 =>
        /\ trace[Len(trace)].op = "eglChooseConfig"
        /\ Count("eglCreateContext") = 0

---------------------------------------------------------------------------
(* C6 *)

SoftWarning ==
    \/ Reported("Shader Compile Error")
    \/ Reported("Warning: Could not find u_Vertices uniform location.")

\* C6: after a shader stage failed to compile or the uniform location was
\* not found, the run never returns -1; when it has ended, it has linked,
\* drawn exactly once, read back, called save_ppm (fopen) and torn down
\* everything. When the location was not found, glUniform4fv is never
\* called (no geometry is uploaded), and the draw is still issued.
C6_SoftWarningsDoNotHalt ==
    /\ SoftWarning =>
          /\ exitCode # "return -1"
          /\ (Exited =>
                /\ exitCode = "return 0"
                /\ Count("glLinkProgram") = 1
                /\ Count("glDrawArrays") = 1
                /\ Count("glReadPixels") = 1
                /\ Count("fopen") = 1
                /\ AllReleased)
    /\ Reported("Warning: Could not find u_Vertices uniform location.") =>
          /\ Count("glUniform4fv") = 0
          /\ ~gl.uniformSet
          /\ (Exited => gl.draws = 1)

\* A run has ended after the vertex stage failed to compile (so that the
\* uniform was not found either) and the file was written.
C6_Witness ==
    /\ Exited
    /\ gl.vsCompiled = "failed"
    /\ Reported("Warning: Could not find u_Vertices uniform location.")
    /\ sp.f = "closed"

---------------------------------------------------------------------------
(* C7 *)

---------------------------------------------------------------------------
(* C8 *)

\* The call that completes each stage, in the order of the stages:
\* ContextReady, TargetReady, ProgramReady, GeometryBound (the look-up that
\* decides the upload), the clear and the draw of Rendered, ReadBack,
\* Written (save_ppm's fopen), TornDown.
StageCalls ==
    <<"eglMakeCurrent", "glCheckFramebufferStatus", "glUseProgram",
      "glGetUniformLocation", "glClear", "glDrawArrays", "glReadPixels",
      "fopen", "eglTerminate">>

StageCallSet == {StageCalls[i] : i \in 1..Len(StageCalls)}

\* C8: the stage calls made so far are always an initial part of the list
\* of stages, in its order (none skipped, none made twice, none out of
\* order: one clear, then one draw, then the readback, then the write);
\* a stage call is followed by another call only if it succeeded, for the
\* two that the program tests; the upload of the geometry, when made, is
\* made once, between the look-up and the clear; and a run that returns 0
\* has made them all.
C8_StageOrder ==
    /\ IsPrefix(Calls(StageCallSet), StageCalls)
    /\ \A i \in 1..(Len(trace) - 1) :
          trace[i].op \in {"eglMakeCurrent", "glCheckFramebufferStatus"} => trace[i].ok
    /\ Count("glUniform4fv") <= 1
    /\ Before("glGetUniformLocation", "glUniform4fv")
    /\ Before("glUniform4fv", "glClear")
    /\ Count("glDrawArrays") = gl.draws
    /\ (exitCode = "return 0" => Calls(StageCallSet) = StageCalls)

\* A run has returned 0 after uploading the geometry and writing the file.
C8_Witness ==
    /\ exitCode = "return 0"
    /\ Count("glUniform4fv") = 1
    /\ sp.f = "closed"

---------------------------------------------------------------------------
(* C9 *)

ReleaseCallSet == {ReleaseCalls[i] : i \in 1..Len(ReleaseCalls)}

\* C9: the releases made so far are always an initial part of the list
\* vertex-array object, program, framebuffer, texture, pixel buffer,
\* surface, context, display (each at most once and in that order); every
\* GL object is deleted while the context is still current; the display is
\* terminated only after surface and context are destroyed; and a run that
\* returns 0 has made all eight.
C9_TeardownOrder ==
    /\ IsPrefix(Calls(ReleaseCallSet), ReleaseCalls)
    /\ \A i \in 1..Len(trace) :
          trace[i].op \in {"glDeleteVertexArrays", "glDeleteProgram",
                           "glDeleteFramebuffers", "glDeleteTextures"}
              => trace[i].cur
    /\ egl.display = "terminated" =>
          egl.surface = "destroyed" /\ egl.context = "destroyed"
    /\ (exitCode = "return 0" => Calls(ReleaseCallSet) = ReleaseCalls /\ AllReleased)

\* A run has returned 0, so the cleanup has run to its end.
C9_Witness ==
    /\ exitCode = "return 0"
    /\ Count("eglTerminate") = 1
    /\ Count("glDeleteVertexArrays") = 1

---------------------------------------------------------------------------
(* C10 *)

\* C10: every GL call in the trace was made while the context was current
\* (after eglMakeCurrent succeeded, before surface or context were
\* destroyed); from the binding of the framebuffer object until its
\* deletion it is the bound framebuffer, so the clear, the draw and the
\* readback were made with it bound, and the readback read from it.
C10_CurrentContext ==
    /\ \A i \in 1..Len(trace) : trace[i].op \in GlCalls => trace[i].cur
    /\ \A i \in 1..Len(trace) :
          trace[i].op \in {"glFramebufferTexture2D", "glCheckFramebufferStatus",
                           "glClear", "glDrawArrays", "glReadPixels"}
              => trace[i].fb = "fbo"
    /\ gl.fbo = "live" => gl.boundFbo = "fbo" /\ ContextCurrent
    /\ gl.readFrom \in {"none", "fbo"}
    /\ (Count("glReadPixels") = 1 => gl.readFrom = "fbo" /\ gl.status = "complete")

\* A run has ended after a readback and the deletion of the GL objects.
C10_Witness ==
    /\ Exited
    /\ gl.readFrom = "fbo"
    /\ Count("glDeleteTextures") = 1

==========================================================================
